---------------------------- MODULE Spec2Model ----------------------------
(***************************************************************************)
(* A model of the notes/todos application: the Notes store (notes.rs), the *)
(* Todos store (todos.rs) and the TemplateApp controller (app.rs).         *)
(*                                                                         *)
(* Strings are sequences of one-character strings, so that path building,  *)
(* file_stem and the JSON encoding/decoding are computed, not assumed.     *)
(* Option<T> is a sequence of length 0 (None) or 1 (Some).                 *)
(***************************************************************************)
EXTENDS Integers, Sequences, FiniteSets, TLC

VARIABLES
    files,          \* the directory <home>/.notes: file name -> file content
    items,          \* TemplateApp.notes.items : Vec<String>
    todos,          \* TemplateApp.todos.items : Vec<Todo>
    selected_note,  \* TemplateApp.selected_note : Option<String>
    storage,        \* the value eframe persisted for the app: Option<Option<String>>
    crashed,        \* the process has panicked (an unwrap() on an Err)
    frame,          \* eframe::App::update: the position inside the current
                    \* frame and the state of the two Mutexes
    last            \* history: the operation performed by the latest step

vars == <<files, items, todos, selected_note, storage, crashed, frame, last>>

-----------------------------------------------------------------------------
(* Bounds of the model *)

MaxNotes == 2
MaxTodos == 2

-----------------------------------------------------------------------------
(* Option and Result values *)

None == <<>>
Some(x) == <<x>>

Ok(v) == [ok |-> TRUE, err |-> "", val |-> v]
Err(e) == [ok |-> FALSE, err |-> e, val |-> <<>>]

\* Option::ok / Result::unwrap_or_default for a Vec-valued result
unwrap_or_default(r) == IF r.ok THEN r.val ELSE <<>>

Range(s) == {s[i] : i \in 1..Len(s)}

-----------------------------------------------------------------------------
(* Paths inside <home>/.notes *)

TxtExt == <<".", "t", "x", "t">>
TodosFileName == <<".", "t", "o", "d", "o", "s">>

\* get_notes_dir()?.join(format!("{}.txt", title)) : the file name in .notes
note_path(title) == title \o TxtExt

\* the position of the last "." of a file name, 0 if there is none
RECURSIVE LastDot(_, _)
LastDot(name, i) ==
    IF i = 0 THEN 0
    ELSE IF name[i] = "." THEN i
    ELSE LastDot(name, i - 1)

\* Path::file_stem: the whole name if it has no ".", or if its only "." is
\* the first character; otherwise the part before the last "."
file_stem(name) ==
    LET d == LastDot(name, Len(name))
    IN  IF d <= 1 THEN name ELSE SubSeq(name, 1, d - 1)

-----------------------------------------------------------------------------
(* The file system: create/truncate, write, remove on the directory map *)

Exists(fs, name) == name \in DOMAIN fs

\* File::create followed by write_all of the first n characters of data
WriteFile(fs, name, data, n) ==
    [f \in DOMAIN fs \cup {name} |->
        IF f = name THEN SubSeq(data, 1, n) ELSE fs[f]]

\* fs::remove_file
RemoveFile(fs, name) == [f \in DOMAIN fs \ {name} |-> fs[f]]

\* What a failed write_all may leave behind after File::create truncated the
\* file: a proper prefix of the data (nothing, or all but the last character).
PartialLens(data) ==
    IF Len(data) = 0 THEN {} ELSE {0, Len(data) - 1}

\* The outcomes of one file-system call sequence: it succeeds, the directory
\* cannot be resolved, the file cannot be opened/removed, or the transfer of
\* the data fails after n characters.
NoFail == [step |-> "none", n |-> 0]
Fails(data) ==
    {NoFail, [step |-> "dir", n |-> 0], [step |-> "open", n |-> 0]}
    \cup {[step |-> "write", n |-> k] : k \in PartialLens(data)}
ReadFails ==
    {NoFail, [step |-> "dir", n |-> 0], [step |-> "open", n |-> 0],
     [step |-> "read", n |-> 0]}

\* A store call returns the new directory and its io::Result
Out(fs, res) == [fs |-> fs, res |-> res]

-----------------------------------------------------------------------------
(* Notes store (notes.rs) *)

\* Notes::add
Notes_add(its, note) == Append(its, note)

\* Notes::create_note_file
create_note_file(fs, title, content, fail) ==
    IF fail.step \in {"dir", "open"} THEN Out(fs, Err("IOError"))
    ELSE IF fail.step = "write"
         THEN Out(WriteFile(fs, note_path(title), content, fail.n), Err("IOError"))
    ELSE Out(WriteFile(fs, note_path(title), content, Len(content)), Ok(<<>>))

\* Notes::read_note_file
read_note_file(fs, title, fail) ==
    IF fail.step = "dir" THEN Err("IOError")
    ELSE IF ~Exists(fs, note_path(title)) THEN Err("NotFound")
    ELSE IF fail.step \in {"open", "read"} THEN Err("IOError")
    ELSE Ok(fs[note_path(title)])

\* update_note_file opening the file for appending instead of truncating it
update_note_file_append(fs, title, new_content, fail) ==
    LET old == IF Exists(fs, note_path(title)) THEN fs[note_path(title)] ELSE <<>>
        data == old \o new_content
    IN  IF fail.step # "none" THEN Out(fs, Err("IOError"))
        ELSE Out(WriteFile(fs, note_path(title), data, Len(data)), Ok(<<>>))

\* Notes::update_note_file
update_note_file(fs, title, new_content, fail) ==
    IF fail.step \in {"dir", "open"} THEN Out(fs, Err("IOError"))
    ELSE IF fail.step = "write"
         THEN Out(WriteFile(fs, note_path(title), new_content, fail.n), Err("IOError"))
    ELSE Out(WriteFile(fs, note_path(title), new_content, Len(new_content)), Ok(<<>>))

\* Notes::delete_note_file
delete_note_file(fs, title, fail) ==
    IF fail.step = "dir" THEN Out(fs, Err("IOError"))
    ELSE IF ~Exists(fs, note_path(title)) THEN Out(fs, Err("NotFound"))
    ELSE IF fail.step = "open" THEN Out(fs, Err("IOError"))
    ELSE Out(RemoveFile(fs, note_path(title)), Ok(<<>>))

\* The orders in which fs::read_dir may enumerate the directory
Orders(fs) ==
    LET n == Cardinality(DOMAIN fs)
    IN  {o \in [1..n -> DOMAIN fs] : Range(o) = DOMAIN fs}

\* Notes::list_notes: one file_stem per directory entry, in enumeration order
list_notes(fs, order, fail) ==
    IF fail.step # "none" THEN Err("IOError")
    ELSE Ok([i \in 1..Len(order) |-> file_stem(order[i])])

\* the set of titles list_notes returns, whatever the enumeration order
list_titles(fs) ==
    Range(list_notes(fs, CHOOSE order \in Orders(fs) : TRUE, NoFail).val)

-----------------------------------------------------------------------------
(* serde_json encoding of Todos (derive(Serialize)) *)

ItemsOpen == <<"{", "\"", "i", "t", "e", "m", "s", "\"", ":", "[">>
DescriptionKey ==
    <<"{", "\"", "d", "e", "s", "c", "r", "i", "p", "t", "i", "o", "n", "\"", ":">>
DueDateKey ==
    <<",", "\"", "d", "u", "e", "_", "d", "a", "t", "e", "\"", ":">>
NullLit == <<"n", "u", "l", "l">>
DigitChars == <<"0", "1", "2", "3", "4", "5", "6", "7", "8", "9">>

\* EscapeChar with the escaping forgotten
EscapeChar_raw(c) == <<c>>

\* serde_json's string escapes for the characters of the model's alphabet
EscapeChar(c) ==
    IF c = "\"" THEN <<"\\", "\"">>
    ELSE IF c = "\\" THEN <<"\\", "\\">>
    ELSE IF c = "\n" THEN <<"\\", "n">>
    ELSE <<c>>

RECURSIVE EscapeStr(_)
EscapeStr(s) ==
    IF Len(s) = 0 THEN <<>> ELSE EscapeChar(Head(s)) \o EscapeStr(Tail(s))

EncodeString(s) == <<"\"">> \o EscapeStr(s) \o <<"\"">>

RECURSIVE EncodeNat(_)
EncodeNat(n) ==
    IF n < 10 THEN <<DigitChars[n + 1]>>
    ELSE EncodeNat(n \div 10) \o <<DigitChars[(n % 10) + 1]>>

EncodeInt(n) == IF n < 0 THEN <<"-">> \o EncodeNat(-n) ELSE EncodeNat(n)

EncodeOption(d) == IF d = None THEN NullLit ELSE EncodeInt(d[1])

EncodeTodo(t) ==
    DescriptionKey \o EncodeString(t.description)
        \o DueDateKey \o EncodeOption(t.due_date) \o <<"}">>

RECURSIVE EncodeTodoList(_)
EncodeTodoList(its) ==
    IF Len(its) = 0 THEN <<>>
    ELSE IF Len(its) = 1 THEN EncodeTodo(its[1])
    ELSE EncodeTodo(its[1]) \o <<",">> \o EncodeTodoList(Tail(its))

\* serde_json::to_string(&self)
to_string(its) == ItemsOpen \o EncodeTodoList(its) \o <<"]", "}">>

-----------------------------------------------------------------------------
(* serde_json decoding of Todos (derive(Deserialize)) *)

PFail == [ok |-> FALSE, val |-> <<>>, rest |-> <<>>]
POk(v, rest) == [ok |-> TRUE, val |-> v, rest |-> rest]

StartsWith(s, lit) == Len(s) >= Len(lit) /\ SubSeq(s, 1, Len(lit)) = lit
Drop(s, n) == SubSeq(s, n + 1, Len(s))

\* the characters of a JSON string after its opening quote
RECURSIVE ParseStrBody(_, _)
ParseStrBody(s, acc) ==
    IF Len(s) = 0 THEN PFail
    ELSE IF s[1] = "\"" THEN POk(acc, Tail(s))
    ELSE IF s[1] = "\\" THEN
        IF Len(s) < 2 THEN PFail
        ELSE IF s[2] = "\"" THEN ParseStrBody(Drop(s, 2), Append(acc, "\""))
        ELSE IF s[2] = "\\" THEN ParseStrBody(Drop(s, 2), Append(acc, "\\"))
        ELSE IF s[2] = "n" THEN ParseStrBody(Drop(s, 2), Append(acc, "\n"))
        ELSE PFail
    ELSE IF s[1] = "\n" THEN PFail
    ELSE ParseStrBody(Tail(s), Append(acc, s[1]))

ParseString(s) ==
    IF Len(s) > 0 /\ s[1] = "\"" THEN ParseStrBody(Tail(s), <<>>) ELSE PFail

IsDigit(c) == \E i \in 1..10 : DigitChars[i] = c
DigitVal(c) == (CHOOSE i \in 1..10 : DigitChars[i] = c) - 1

RECURSIVE ParseDigits(_, _)
ParseDigits(s, acc) ==
    IF Len(s) > 0 /\ IsDigit(s[1])
    THEN ParseDigits(Tail(s), acc * 10 + DigitVal(s[1]))
    ELSE POk(acc, s)

\* a JSON number read into an i64: "-"? ("0" | [1-9][0-9]*)
ParseNat(s) ==
    IF Len(s) = 0 \/ ~IsDigit(s[1]) THEN PFail
    ELSE IF s[1] = "0"
         THEN IF Len(s) > 1 /\ IsDigit(s[2]) THEN PFail ELSE POk(0, Tail(s))
    ELSE ParseDigits(s, 0)

ParseInt(s) ==
    IF Len(s) > 0 /\ s[1] = "-"
    THEN LET r == ParseNat(Tail(s))
         IN  IF r.ok THEN POk(0 - r.val, r.rest) ELSE PFail
    ELSE ParseNat(s)

ParseOption(s) ==
    IF StartsWith(s, NullLit) THEN POk(None, Drop(s, Len(NullLit)))
    ELSE LET r == ParseInt(s)
         IN  IF r.ok THEN POk(Some(r.val), r.rest) ELSE PFail

ParseTodo(s) ==
    IF ~StartsWith(s, DescriptionKey) THEN PFail
    ELSE LET d == ParseString(Drop(s, Len(DescriptionKey)))
         IN  IF ~d.ok \/ ~StartsWith(d.rest, DueDateKey) THEN PFail
             ELSE LET o == ParseOption(Drop(d.rest, Len(DueDateKey)))
                  IN  IF ~o.ok \/ ~StartsWith(o.rest, <<"}">>) THEN PFail
                      ELSE POk([description |-> d.val, due_date |-> o.val],
                               Tail(o.rest))

RECURSIVE ParseTodoList(_, _)
ParseTodoList(s, acc) ==
    LET t == ParseTodo(s)
    IN  IF ~t.ok THEN PFail
        ELSE IF StartsWith(t.rest, <<",">>)
             THEN ParseTodoList(Tail(t.rest), Append(acc, t.val))
        ELSE IF StartsWith(t.rest, <<"]">>)
             THEN POk(Append(acc, t.val), Tail(t.rest))
        ELSE PFail

ParseItems(s) ==
    IF StartsWith(s, <<"]">>) THEN POk(<<>>, Tail(s)) ELSE ParseTodoList(s, <<>>)

\* serde_json::from_str::<Todos>(&data)
from_str(data) ==
    IF ~StartsWith(data, ItemsOpen) THEN Err("SerializationError")
    ELSE LET r == ParseItems(Drop(data, Len(ItemsOpen)))
         IN  IF r.ok /\ r.rest = <<"}">> THEN Ok(r.val)
             ELSE Err("SerializationError")

-----------------------------------------------------------------------------
(* Todos store (todos.rs) *)

\* Todos::add
Todos_add(its, description, due_date) ==
    Append(its, [description |-> description, due_date |-> due_date])

\* save_to_file opening the file for appending instead of truncating it
save_to_file_append(fs, its, fail) ==
    LET old == IF Exists(fs, TodosFileName) THEN fs[TodosFileName] ELSE <<>>
        data == old \o to_string(its)
    IN  IF fail.step # "none" THEN Out(fs, Err("IOError"))
        ELSE Out(WriteFile(fs, TodosFileName, data, Len(data)), Ok(<<>>))

\* Todos::save_to_file: the file is created (truncated) before the data is
\* encoded and written
save_to_file(fs, its, fail) ==
    IF fail.step \in {"dir", "open"} THEN Out(fs, Err("IOError"))
    ELSE IF fail.step = "write"
         THEN Out(WriteFile(fs, TodosFileName, to_string(its), fail.n), Err("IOError"))
    ELSE Out(WriteFile(fs, TodosFileName, to_string(its), Len(to_string(its))),
             Ok(<<>>))

\* Todos::load_from_file
load_from_file(fs, fail) ==
    IF fail.step = "dir" THEN Err("IOError")
    ELSE IF ~Exists(fs, TodosFileName) THEN Err("NotFound")
    ELSE IF fail.step \in {"open", "read"} THEN Err("IOError")
    ELSE from_str(fs[TodosFileName])

-----------------------------------------------------------------------------
(* Inputs of the controller operations *)

NewNoteTitle == <<"N", "e", "w", " ", "N", "o", "t", "e">>
EmptyTitle == <<>>
DotTxtTitle == <<".", "t", "x", "t">>
\* the title the user interface passes to create_note
Titles == {NewNoteTitle}
\* titles for the note store on its own
StoreTitles == {NewNoteTitle, EmptyTitle, DotTxtTitle}

NoteContents == {<<"x">>, <<"z">>}
\* what ui.text_edit_multiline may turn the content into
EditedContents == {<<"x", "y">>}

NewTodoDescription == <<"N", "e", "w", " ", "T", "o", "d", "o">>
Descriptions == {NewTodoDescription, <<"a", "\"", "\\", "\n">>}
DueDates == {None, Some(0), Some(-1627849200)}

\* the history record of a step: the operation, the note title whose file it
\* created, updated or removed, the content it wrote, the todo index it was
\* given, the length of the todo list before it, and whether it returned
Last(op, title, content, index, len, ok) ==
    [op |-> op, title |-> title, content |-> content, index |-> index,
     len |-> len, ok |-> ok]

-----------------------------------------------------------------------------
(* TemplateApp (app.rs) *)

\* Between two frames: update is not running and both Mutexes are unlocked
FrameIdle == [pc |-> "idle", notes |-> "free", todos |-> "free"]

\* impl Default for TemplateApp, applied to a fresh home directory: the
\* directory is empty, list_notes returns no title and load_from_file fails
\* with NotFound, which unwrap_or_default turns into an empty list
Init ==
    /\ files = <<>>
    /\ items = <<>>
    /\ todos = <<>>
    /\ selected_note = None
    /\ storage = None
    /\ crashed = FALSE
    /\ frame = FrameIdle
    /\ last = Last("default", None, None, 0, 0, TRUE)

\* create_note that lists a title only when it is not listed yet
create_note_dedup(title, content) ==
    /\ ~crashed
    /\ Len(items) < MaxNotes
    /\ \E fail \in Fails(content) :
        LET out == create_note_file(files, title, content, fail)
        IN  /\ items' = IF title \in Range(items) THEN items
                        ELSE Notes_add(items, title)
            /\ files' = out.fs
            /\ crashed' = ~out.res.ok
            /\ last' = Last("create_note", Some(title), Some(content), 0, 0,
                         out.res.ok)
    /\ UNCHANGED <<todos, selected_note, storage, frame>>

\* TemplateApp::create_note
create_note(title, content) ==
    /\ ~crashed
    /\ Len(items) < MaxNotes
    /\ \E fail \in Fails(content) :
        LET out == create_note_file(files, title, content, fail)
        IN  /\ items' = Notes_add(items, title)
            /\ files' = out.fs
            /\ crashed' = ~out.res.ok
            /\ last' = Last("create_note", Some(title), Some(content), 0, 0,
                         out.res.ok)
    /\ UNCHANGED <<todos, selected_note, storage, frame>>

\* delete_note removing one occurrence of the title instead of all
delete_note_first(title) ==
    /\ ~crashed
    /\ \E fail \in Fails(<<>>) :
        LET out == delete_note_file(files, title, fail)
        IN  /\ items' = IF title \notin Range(items) THEN items
                        ELSE LET i == CHOOSE i \in 1..Len(items) :
                                        /\ items[i] = title
                                        /\ \A j \in 1..(i - 1) : items[j] # title
                             IN  SubSeq(items, 1, i - 1)
                                 \o SubSeq(items, i + 1, Len(items))
            /\ files' = out.fs
            /\ crashed' = ~out.res.ok
            /\ last' = Last("delete_note", Some(title), None, 0, 0, out.res.ok)
    /\ UNCHANGED <<todos, selected_note, storage, frame>>

\* TemplateApp::delete_note
delete_note(title) ==
    /\ ~crashed
    /\ \E fail \in Fails(<<>>) :
        LET out == delete_note_file(files, title, fail)
        IN  /\ items' = SelectSeq(items, LAMBDA note : note # title)
            /\ files' = out.fs
            /\ crashed' = ~out.res.ok
            /\ last' = Last("delete_note", Some(title), None, 0, 0, out.res.ok)
    /\ UNCHANGED <<todos, selected_note, storage, frame>>

\* TemplateApp::create_todo
create_todo(description, due_date) ==
    /\ ~crashed
    /\ Len(todos) < MaxTodos
    /\ LET its == Todos_add(todos, description, due_date)
       IN  \E fail \in Fails(to_string(its)) :
            LET out == save_to_file(files, its, fail)
            IN  /\ todos' = its
                /\ files' = out.fs
                /\ crashed' = ~out.res.ok
                /\ last' = Last("create_todo", None, None, 0, Len(todos), out.res.ok)
    /\ UNCHANGED <<items, selected_note, storage, frame>>

\* Vec::pop in the place of Vec::remove: the last record goes
remove_last(its, index) == SubSeq(its, 1, Len(its) - 1)

\* Vec::remove(index), index counted from 0
remove(its, index) ==
    SubSeq(its, 1, index) \o SubSeq(its, index + 2, Len(its))

\* delete_todo without the index check: Vec::remove panics out of range
delete_todo_unchecked(index) ==
    /\ ~crashed
    /\ IF index < Len(todos)
       THEN LET its == remove(todos, index)
            IN  \E fail \in Fails(to_string(its)) :
                 LET out == save_to_file(files, its, fail)
                 IN  /\ todos' = its
                     /\ files' = out.fs
                     /\ crashed' = ~out.res.ok
                     /\ last' = Last("delete_todo", None, None, index, Len(todos),
                                     out.res.ok)
       ELSE /\ UNCHANGED <<todos, files>>
            /\ crashed' = TRUE
            /\ last' = Last("delete_todo", None, None, index, Len(todos), FALSE)
    /\ UNCHANGED <<items, selected_note, storage, frame>>

\* TemplateApp::delete_todo
delete_todo(index) ==
    /\ ~crashed
    /\ IF index < Len(todos)
       THEN LET its == remove(todos, index)
            IN  \E fail \in Fails(to_string(its)) :
                 LET out == save_to_file(files, its, fail)
                 IN  /\ todos' = its
                     /\ files' = out.fs
                     /\ crashed' = ~out.res.ok
                     /\ last' = Last("delete_todo", None, None, index, Len(todos),
                                  out.res.ok)
       ELSE /\ UNCHANGED <<todos, files, crashed>>
            /\ last' = Last("delete_todo", None, None, index, Len(todos), TRUE)
    /\ UNCHANGED <<items, selected_note, storage, frame>>

\* write_back that updates the file even when the read failed, with the
\* default (empty) content
write_back_unchecked(op, edits) ==
    /\ ~crashed
    /\ IF selected_note = None
       THEN /\ UNCHANGED <<files, crashed>>
            /\ last' = Last(op, None, None, 0, 0, TRUE)
       ELSE \E rf \in ReadFails :
            LET r == read_note_file(files, selected_note[1], rf)
            IN  \E content \in {r.val} \cup edits :
                 \E wf \in Fails(content) :
                  LET out == update_note_file(files, selected_note[1], content, wf)
                  IN  /\ files' = out.fs
                      /\ crashed' = ~out.res.ok
                      /\ last' = Last(op, selected_note, Some(content), 0, 0,
                                      out.res.ok)
    /\ UNCHANGED <<items, todos, selected_note, storage>>

\* The write-back shared by save_active_note_to_disk and the central panel:
\* read the selected note and, when the read succeeds, update the file with
\* one of the contents in `edits` (the content read, or what the user typed)
write_back(op, edits) ==
    /\ ~crashed
    /\ IF selected_note = None
       THEN /\ UNCHANGED <<files, crashed>>
            /\ last' = Last(op, None, None, 0, 0, TRUE)
       ELSE \E rf \in ReadFails :
            LET r == read_note_file(files, selected_note[1], rf)
            IN  IF ~r.ok
                THEN /\ UNCHANGED <<files, crashed>>
                     /\ last' = Last(op, None, None, 0, 0, TRUE)
                ELSE \E content \in {r.val} \cup edits :
                     \E wf \in Fails(content) :
                      LET out == update_note_file(files, selected_note[1], content, wf)
                      IN  /\ files' = out.fs
                          /\ crashed' = ~out.res.ok
                          /\ last' = Last(op, selected_note, Some(content), 0, 0,
                                          out.res.ok)
    /\ UNCHANGED <<items, todos, selected_note, storage>>

\* save_active_note_to_disk writing a buffer that is not the content read
save_active_note_to_disk_stale ==
    /\ write_back("save_active_note_to_disk", EditedContents \cup {<<>>})
    /\ UNCHANGED frame

\* TemplateApp::save_active_note_to_disk
save_active_note_to_disk ==
    /\ write_back("save_active_note_to_disk", {})
    /\ UNCHANGED frame

\* eframe::App::update, the central panel
update_central_panel ==
    /\ write_back("update_central_panel", EditedContents)
    /\ UNCHANGED frame

\* eframe::App::update, the left panel: a click on a note's button
select_note(note) ==
    /\ ~crashed
    /\ note \in Range(items)
    /\ selected_note' = Some(note)
    /\ last' = Last("select_note", None, None, 0, 0, TRUE)
    /\ UNCHANGED <<files, items, todos, storage, crashed, frame>>

\* eframe::App::save: the app's serialized fields are persisted
save ==
    /\ ~crashed
    /\ storage' = Some(selected_note)
    /\ last' = Last("save", None, None, 0, 0, TRUE)
    /\ UNCHANGED <<files, items, todos, selected_note, crashed, frame>>

\* The process ends (quit, kill or panic) and the application starts again:
\* TemplateApp::new with impl Default for TemplateApp
new ==
    /\ \E order \in Orders(files), lf \in {NoFail, [step |-> "dir", n |-> 0]},
          tf \in {NoFail, [step |-> "read", n |-> 0]} :
        /\ items' = unwrap_or_default(list_notes(files, order, lf))
        /\ todos' = unwrap_or_default(load_from_file(files, tf))
    /\ selected_note' = IF storage = None THEN None ELSE storage[1]
    /\ crashed' = FALSE
    /\ frame' = FrameIdle
    /\ last' = Last("new", None, None, 0, 0, TRUE)
    /\ UNCHANGED <<files, storage>>

-----------------------------------------------------------------------------
(* One frame of eframe::App::update (app.rs), step by step *)

\* Mutex::lock called by the thread that already holds the guard: the
\* call does not return. std leaves the behaviour unspecified: the thread
\* deadlocks, or it panics, and the guard it holds is then dropped while
\* panicking, which poisons the Mutex.
RelockOutcomes == {"deadlock", "panic"}

lock_again(mutex, op, title, index) ==
    /\ ~crashed
    /\ frame[mutex] = "held"
    /\ \E outcome \in RelockOutcomes :
        /\ frame' = IF outcome = "deadlock"
                    THEN [frame EXCEPT !.pc = "deadlock"]
                    ELSE [frame EXCEPT !.pc = "panic", ![mutex] = "poisoned"]
        /\ crashed' = (outcome = "panic")
    /\ last' = Last(op, title, None, index, Len(todos), FALSE)
    /\ UNCHANGED <<files, items, todos, selected_note, storage>>

\* update, line 94: the periodic flush that opens every frame
update_flush ==
    /\ frame.pc = "idle"
    /\ write_back("save_active_note_to_disk", {})
    /\ frame' = [frame EXCEPT !.pc = "left_panel"]

\* the left panel's closure takes the notes guard, held until the closure ends
left_panel_lock ==
    /\ ~crashed
    /\ frame.pc = "left_panel"
    /\ frame.notes = "free"
    /\ frame' = [frame EXCEPT !.pc = "left_locked", !.notes = "held"]
    /\ last' = Last("left_panel", None, None, 0, 0, TRUE)
    /\ UNCHANGED <<files, items, todos, selected_note, storage, crashed>>

\* a click on a note's button
click_note(note) ==
    /\ ~crashed
    /\ frame.pc = "left_locked"
    /\ note \in Range(items)
    /\ selected_note' = Some(note)
    /\ frame' = [frame EXCEPT !.pc = "left_clicked"]
    /\ last' = Last("select_note", None, None, 0, 0, TRUE)
    /\ UNCHANGED <<files, items, todos, storage, crashed>>

\* a click on "Create Note": create_note locks self.notes again
click_create_note ==
    /\ frame.pc = "left_locked"
    /\ lock_again("notes", "click_create_note", Some(NewNoteTitle), 0)

\* a click on "Delete Note": delete_note locks self.notes again
click_delete_note ==
    /\ frame.pc = "left_locked"
    /\ selected_note # None
    /\ lock_again("notes", "click_delete_note", selected_note, 0)

\* the left panel's closure returns and drops the notes guard
left_panel_end ==
    /\ ~crashed
    /\ frame.pc \in {"left_locked", "left_clicked"}
    /\ frame' = [frame EXCEPT !.pc = "right_panel", !.notes = "free"]
    /\ last' = Last("left_panel_end", None, None, 0, 0, TRUE)
    /\ UNCHANGED <<files, items, todos, selected_note, storage, crashed>>

\* the right panel's closure takes the todos guard
right_panel_lock ==
    /\ ~crashed
    /\ frame.pc = "right_panel"
    /\ frame.todos = "free"
    /\ frame' = [frame EXCEPT !.pc = "right_locked", !.todos = "held"]
    /\ last' = Last("right_panel", None, None, 0, 0, TRUE)
    /\ UNCHANGED <<files, items, todos, selected_note, storage, crashed>>

\* a click on the Delete button of a listed todo: delete_todo locks
\* self.todos again
click_delete_todo(index) ==
    /\ frame.pc = "right_locked"
    /\ index < Len(todos)
    /\ lock_again("todos", "click_delete_todo", None, index)

\* a click on "Create Todo": create_todo locks self.todos again
click_create_todo ==
    /\ frame.pc = "right_locked"
    /\ lock_again("todos", "click_create_todo", None, 0)

\* the right panel's closure returns and drops the todos guard
right_panel_end ==
    /\ ~crashed
    /\ frame.pc = "right_locked"
    /\ frame' = [frame EXCEPT !.pc = "central_panel", !.todos = "free"]
    /\ last' = Last("right_panel_end", None, None, 0, 0, TRUE)
    /\ UNCHANGED <<files, items, todos, selected_note, storage, crashed>>

\* the central panel's write-back, which ends the frame
central_panel ==
    /\ frame.pc = "central_panel"
    /\ write_back("update_central_panel", EditedContents)
    /\ frame' = [frame EXCEPT !.pc = "idle"]

\* eframe saves the application between two frames
save_between_frames ==
    /\ frame.pc = "idle"
    /\ save

\* The application constructed (TemplateApp::new) over a notes directory
\* and a stored selection left by earlier controller operations
InitFrame ==
    \E note \in {None} \cup {Some(c) : c \in NoteContents},
       snapshot \in {None} \cup {Some(n) : n \in 0..MaxTodos},
       stored \in {None, Some(None), Some(Some(NewNoteTitle))} :
        LET dir == IF note = None THEN <<>>
                   ELSE create_note_file(<<>>, NewNoteTitle, note[1], NoFail).fs
            saved == [i \in 1..(IF snapshot = None THEN 0 ELSE snapshot[1]) |->
                        [description |-> NewTodoDescription, due_date |-> None]]
            fs == IF snapshot = None THEN dir
                  ELSE save_to_file(dir, saved, NoFail).fs
        IN  /\ files = fs
            /\ \E order \in Orders(fs) :
                  items = unwrap_or_default(list_notes(fs, order, NoFail))
            /\ todos = unwrap_or_default(load_from_file(fs, NoFail))
            /\ storage = stored
            /\ selected_note = IF stored = None THEN None ELSE stored[1]
            /\ crashed = FALSE
            /\ frame = FrameIdle
            /\ last = Last("new", None, None, 0, 0, TRUE)

-----------------------------------------------------------------------------
(* Specifications *)

\* The application, with the inputs its user interface passes to the todo
\* operations
Next ==
    \/ \E title \in Titles, content \in NoteContents : create_note(title, content)
    \/ \E title \in Titles \cup Range(items) : delete_note(title)
    \/ create_todo(NewTodoDescription, None)
    \/ \E index \in 0..MaxTodos : delete_todo(index)
    \/ save_active_note_to_disk
    \/ update_central_panel
    \/ \E note \in Range(items) : select_note(note)
    \/ save
    \/ new

Spec == Init /\ [][Next]_vars

\* The todo store under the controller, with any description and due date
NextTodos ==
    \/ \E description \in Descriptions, due_date \in DueDates :
          create_todo(description, due_date)
    \/ \E index \in 0..MaxTodos : delete_todo(index)
    \/ new

SpecTodos == Init /\ [][NextTodos]_vars

\* The note store under the controller, with any title
NextNotes ==
    \/ \E title \in StoreTitles, content \in NoteContents :
          create_note(title, content)
    \/ \E title \in StoreTitles \cup Range(items) : delete_note(title)
    \/ save_active_note_to_disk
    \/ update_central_panel
    \/ \E note \in Range(items) : select_note(note)
    \/ new

SpecNotes == Init /\ [][NextNotes]_vars

\* The application driven by its user interface, one frame after another
NextFrame ==
    \/ update_flush
    \/ left_panel_lock
    \/ \E note \in Range(items) : click_note(note)
    \/ click_create_note
    \/ click_delete_note
    \/ left_panel_end
    \/ right_panel_lock
    \/ \E index \in 0..(MaxTodos - 1) : click_delete_todo(index)
    \/ click_create_todo
    \/ right_panel_end
    \/ central_panel
    \/ save_between_frames
    \/ new

SpecFrame == InitFrame /\ [][NextFrame]_vars

-----------------------------------------------------------------------------
(* Properties of the todo store, checked under SpecTodos *)

\* the step just taken changed the todo sequence and its save returned Ok
TodoMutationSaved ==
    /\ last.ok
    /\ \/ last.op = "create_todo"
       \/ last.op = "delete_todo" /\ last.index < last.len

\* C1: after a controller todo mutation (create_todo, delete_todo) that
\* changed the sequence and whose save_to_file succeeded, the snapshot on
\* disk decodes to exactly the in-memory todo sequence.
C1_SnapshotEqualsMemory ==
    TodoMutationSaved => load_from_file(files, NoFail) = Ok(todos)

C1_Witness ==
    /\ TodoMutationSaved
    /\ last.op = "delete_todo"
    /\ Len(todos) >= 1
    /\ load_from_file(files, NoFail) = Ok(todos)

\* C2: for every todo sequence built by repeated add, a successful
\* save_to_file followed by load_from_file returns the same records
\* (description and due_date) in the same order.
C2_SaveLoadRoundTrip ==
    LET saved == save_to_file(files, todos, NoFail)
    IN  /\ saved.res.ok
        /\ load_from_file(saved.fs, NoFail) = Ok(todos)

C2_Witness ==
    /\ Len(todos) = MaxTodos
    /\ \E i \in 1..Len(todos) : "\"" \in Range(todos[i].description)
    /\ \E i \in 1..Len(todos) : todos[i].due_date = Some(-1627849200)
    /\ \E i \in 1..Len(todos) : todos[i].due_date = None
    /\ load_from_file(save_to_file(files, todos, NoFail).fs, NoFail) = Ok(todos)

\* C8: load() on the todo store when the snapshot file does not exist
\* returns a store with zero items and not an error.
C8_MissingSnapshotLoadsEmpty ==
    ~Exists(files, TodosFileName) => load_from_file(files, NoFail) = Ok(<<>>)

\* C9: a todo remove with index >= length leaves the in-memory sequence
\* unchanged, leaves the snapshot on disk unchanged (no rewrite) and returns
\* without an error or a panic.
C9_OutOfRangeRemoveIsNoOp ==
    [][(last'.op = "delete_todo" /\ last'.index >= Len(todos))
        => (todos' = todos /\ files' = files /\ ~crashed' /\ last'.ok)]_vars

C9_Witness ==
    /\ last.op = "delete_todo"
    /\ last.index >= last.len
    /\ last.len >= 1
    /\ Len(todos) = last.len
    /\ ~crashed
    /\ Exists(files, TodosFileName)

-----------------------------------------------------------------------------
(* Properties of the application, checked under Spec *)

\* C3: in every state reached by application start, create_note,
\* delete_note, create_todo, delete_todo and restart, every title of the
\* in-memory title list has a note file <title>.txt on disk.
C3_ListedTitlesHaveFiles ==
    ~crashed => \A title \in Range(items) : Exists(files, note_path(title))

\* C10: no file-system failure during a controller operation puts the
\* application in a crashed state; the operation returns and the
\* application keeps running.
C10_NoFailureCrashes == crashed = FALSE

\* the content read(T) returns before and after a step
ReadBefore(T) == read_note_file(files, T, NoFail)
ReadAfter(T) == read_note_file(files', T, NoFail)

\* C7 as stated: two read(T) calls with no update(T) or delete(T) between
\* them return identical content, whatever other operation that returns
\* (a create call, a todo operation, the periodic flush) comes between.
C7_ReadStableUnlessUpdateOrDelete ==
    [][\A T \in Titles \cup Range(items) :
        (/\ ReadBefore(T).ok /\ ReadAfter(T).ok
         /\ last'.ok
         /\ ~(last'.title = Some(T)
               /\ last'.op \in {"update_central_panel", "delete_note"}))
        => ReadAfter(T) = ReadBefore(T)]_vars

\* C7, amended: two read(T) calls with no create(T), update(T) or delete(T)
\* between them return identical content, whatever other operation comes
\* between, whether it returns or fails; and the periodic flush of T, an
\* update(T) with the content just read, keeps the content when it succeeds.
C7_ReadStableUnlessWrittenOrDeleted ==
    [][\A T \in Titles \cup Range(items) :
        (/\ ReadBefore(T).ok /\ ReadAfter(T).ok
         /\ \/ last'.title # Some(T)
            \/ last'.op = "save_active_note_to_disk" /\ last'.ok)
        => ReadAfter(T) = ReadBefore(T)]_vars

C7_Witness ==
    /\ last.op = "save_active_note_to_disk"
    /\ last.ok
    /\ last.title = Some(NewNoteTitle)
    /\ read_note_file(files, NewNoteTitle, NoFail) = Ok(<<"x", "y">>)
    /\ Exists(files, TodosFileName)

-----------------------------------------------------------------------------
(* Properties of the note store, checked under SpecNotes *)

\* the step just taken is a delete_note / create_note that returned Ok
DeletedOk == last.op = "delete_note" /\ last.ok
CreatedOk == last.op = "create_note" /\ last.ok

\* C4: after a successful delete of title T, read(T) fails with a not-found
\* error, list_titles() does not contain T and the in-memory title list
\* does not contain T.
C4_DeletedTitleIsGone ==
    DeletedOk =>
        /\ read_note_file(files, last.title[1], NoFail) = Err("NotFound")
        /\ last.title[1] \notin list_titles(files)
        /\ last.title[1] \notin Range(items)

\* C5: after a successful create(T, c), the note file of T exists with
\* content exactly c, list_titles() contains T and the in-memory title list
\* contains T.
C5_CreatedTitleIsListed ==
    CreatedOk =>
        /\ read_note_file(files, last.title[1], NoFail) = Ok(last.content[1])
        /\ last.title[1] \in list_titles(files)
        /\ last.title[1] \in Range(items)

\* C6: after a successful update(T, c2) a read(T) returns exactly c2, the
\* previous content being replaced as a whole, and after a successful
\* create(T, c) a read(T) returns exactly c.
C6_ReadReturnsLastWrite ==
    (/\ last.ok
     /\ last.op \in {"create_note", "update_central_panel",
                      "save_active_note_to_disk"}
     /\ last.title # None)
    => read_note_file(files, last.title[1], NoFail) = Ok(last.content[1])

C6_Witness ==
    /\ last.op = "update_central_panel"
    /\ last.ok
    /\ last.title = Some(NewNoteTitle)
    /\ last.content = Some(<<"x", "y">>)
    /\ read_note_file(files, NewNoteTitle, NoFail) = Ok(<<"x", "y">>)

-----------------------------------------------------------------------------
(* Further properties of the application, checked under Spec *)

\* C11: when a note creation, note deletion or todo creation fails at the
\* file-system step, the in-memory title list and the in-memory todo
\* sequence are the same as before the operation was invoked.
C11_FailedOperationKeepsMemory ==
    [][(last'.op \in {"create_note", "delete_note", "create_todo"} /\ ~last'.ok)
        => (items' = items /\ todos' = todos)]_vars

\* a file of the directory named <title>.txt
IsNoteFile(name) ==
    Len(name) >= Len(TxtExt)
    /\ SubSeq(name, Len(name) - Len(TxtExt) + 1, Len(name)) = TxtExt

\* C12: list_notes returns exactly one entry per note that has been created
\* and not deleted, and nothing else.
C12_ListIsExactlyTheNotes ==
    \A order \in Orders(files) :
        LET listed == list_notes(files, order, NoFail).val
            noteFiles == {f \in DOMAIN files : IsNoteFile(f)}
        IN  /\ Len(listed) = Cardinality(noteFiles)
            /\ \A f \in noteFiles : \E i \in 1..Len(listed) : note_path(listed[i]) = f
            /\ \A i \in 1..Len(listed) : note_path(listed[i]) \in noteFiles

\* the todo snapshot, as a file that may be absent
Snapshot(fs) == IF Exists(fs, TodosFileName) THEN Some(fs[TodosFileName]) ELSE None

\* C18: no todo operation changes what list_titles and read return (nor the
\* title list built at the next start), and no note operation changes the
\* in-memory todo sequence or the todo snapshot file.
C18_StoresAreIndependent ==
    [][/\ last'.op \in {"create_todo", "delete_todo"}
          => /\ list_titles(files') = list_titles(files)
             /\ \A T \in Titles \cup Range(items) :
                   read_note_file(files', T, NoFail) = read_note_file(files, T, NoFail)
       /\ last'.op \in {"create_note", "delete_note", "update_central_panel",
                        "save_active_note_to_disk"}
          => /\ todos' = todos
             /\ Snapshot(files') = Snapshot(files)]_vars

\* C20: the periodic flush and the central panel's write-back with no text
\* change leave every note file as it was when they complete, and neither
\* ever creates a file: a selected title without a file stays without one.
C20_WriteBackKeepsFiles ==
    [][last'.op \in {"save_active_note_to_disk", "update_central_panel"}
        => /\ DOMAIN files' = DOMAIN files
           /\ (/\ last'.ok
                /\ \/ last'.content = None
                   \/ /\ selected_note # None
                      /\ read_note_file(files, selected_note[1], NoFail)
                           = Ok(last'.content[1]))
              => files' = files]_vars

C20_Witness ==
    /\ last.op = "save_active_note_to_disk"
    /\ last.ok
    /\ selected_note = Some(NewNoteTitle)
    /\ ~Exists(files, note_path(NewNoteTitle))
    /\ NewNoteTitle \notin Range(items)

-----------------------------------------------------------------------------
(* Further properties of the todo store, checked under SpecTodos *)

\* C13: if a save_to_file call fails at any of its steps, the snapshot on
\* disk still decodes to the sequence written by the latest successful save.
C13_FailedSaveKeepsSnapshot ==
    [][(/\ last'.op \in {"create_todo", "delete_todo"}
        /\ ~last'.ok
        /\ load_from_file(files, NoFail).ok)
        => load_from_file(files', NoFail) = load_from_file(files, NoFail)]_vars

\* C14: when the snapshot file exists but cannot be decoded at startup, the
\* application runs with an empty todo list and no controller operation
\* changes the content of the corrupt file.
C14_CorruptSnapshotIsKept ==
    [][(/\ ~crashed
        /\ Exists(files, TodosFileName)
        /\ ~load_from_file(files, NoFail).ok)
        => /\ todos = <<>>
           /\ Snapshot(files') = Snapshot(files)]_vars

\* C15: a todo remove with index < length removes exactly the record at
\* that position: the sequence is one shorter, the records before index keep
\* their position and the records after it move down by one.
C15_RemoveTakesOutOneRecord ==
    [][(last'.op = "delete_todo" /\ last'.index < Len(todos))
        => LET k == last'.index
           IN  /\ Len(todos') = Len(todos) - 1
               /\ \A i \in 1..k : todos'[i] = todos[i]
               /\ \A i \in (k + 1)..(Len(todos) - 1) : todos'[i] = todos[i + 1]]_vars

C15_Witness ==
    /\ last.op = "delete_todo"
    /\ last.index = 0
    /\ last.len = MaxTodos
    /\ Len(todos) = MaxTodos - 1
    /\ last.ok

-----------------------------------------------------------------------------
(* Further properties of the note store, checked under SpecNotes *)

\* C16: a successful create(T, c) leaves one note file for T whose content
\* is c, whether or not T had a file, appends T to the in-memory title list
\* (one more occurrence per call, the titles listed before keeping their
\* order) and leaves every other file alone.
C16_CreateOverwritesAndAppends ==
    [][(last'.op = "create_note" /\ last'.ok)
        => LET T == last'.title[1]
           IN  /\ items' = Append(items, T)
               /\ DOMAIN files' = DOMAIN files \cup {note_path(T)}
               /\ files'[note_path(T)] = last'.content[1]
               /\ \A f \in DOMAIN files \ {note_path(T)} : files'[f] = files[f]]_vars

C16_Witness ==
    /\ last.op = "create_note"
    /\ last.ok
    /\ items = <<NewNoteTitle, NewNoteTitle>>
    /\ last.title = Some(NewNoteTitle)
    /\ files[note_path(NewNoteTitle)] = last.content[1]
    /\ Cardinality(DOMAIN files) = 1

\* C17: delete(T) removes every occurrence of T from the in-memory title
\* list and nothing else: the other titles keep their occurrences and their
\* order, and no note file other than T's is removed or modified.
C17_DeleteRemovesOnlyT ==
    [][last'.op = "delete_note"
        => LET T == last'.title[1]
           IN  /\ T \notin Range(items')
               /\ items' = SelectSeq(items, LAMBDA note : note # T)
               /\ DOMAIN files \ {note_path(T)} \subseteq DOMAIN files'
               /\ DOMAIN files' \subseteq DOMAIN files
               /\ \A f \in DOMAIN files' : files'[f] = files[f]]_vars

C17_Witness ==
    /\ last.op = "delete_note"
    /\ last.ok
    /\ last.title = Some(NewNoteTitle)
    /\ Len(items) >= 1
    /\ NewNoteTitle \notin Range(items)
    /\ Cardinality(DOMAIN files) >= 1

-----------------------------------------------------------------------------
(* The locks, checked under SpecFrame *)

\* C19: no frame acquires a Mutex it already holds: a click on Create Note,
\* Delete Note, Create Todo or a todo's Delete runs its handler to
\* completion, the frame never deadlocks on the notes or todos lock and
\* neither lock is left poisoned.
C19_NoSelfDeadlock ==
    /\ frame.pc # "deadlock"
    /\ frame.notes # "poisoned"
    /\ frame.todos # "poisoned"

=============================================================================
